---- MODULE Spec2Model ----
(***************************************************************************)
(* Model of train_model.py (DeepMoon): get_metrics, the evaluation loop    *)
(* that filters the ground-truth crater tables, matches predictions        *)
(* against them and aggregates precision / recall / F-beta, and            *)
(* train_and_test_model, the epoch loop that calls it.                     *)
(*                                                                         *)
(* The file is Python 2 (print statement at line 161).  Floats are        *)
(* modelled as exact rationals <<num, den>> in lowest terms; np.std is     *)
(* modelled by the variance it is the square root of.  The crater matcher  *)
(* template_match_t2c lives in utils/ and is modelled by its contract.     *)
(***************************************************************************)
EXTENDS Integers, Sequences, FiniteSets, Bags, TLC

VARIABLES
    pc,        \* position in get_metrics: idle, filter, match, done, raised
    split,     \* who called get_metrics: none, direct, dev, test
    X,         \* the images data[0]; an image is described by its crater
               \* table (truth) and by what the model predicts for it (mask)
    craters,   \* the crater tables craters[get_id(i)], one per image
    beta,      \* F-beta weight
    i,         \* loop index of the running for-loop (0-based, as in the code)
    csvs,      \* csvs list built by the first loop
    preds,     \* model.predict(X)
    lists,     \* the nine aggregate lists
    out,       \* what has been printed
    calls,     \* image indices passed to template_match_t2c, in order
    npredict,  \* number of model.predict calls
    err,       \* exception raised by get_metrics, or "none"
    tpc,       \* position in train_and_test_model
    MP,        \* its parameters: epochs, save_models
    nb,        \* epoch index
    events,    \* fit / get_metrics / save events of the run, in order
    terr       \* exception raised by train_and_test_model, or "none"

vars == <<pc, split, X, craters, beta, i, csvs, preds, lists, out, calls,
          npredict, err, tpc, MP, nb, events, terr>>
gmvars == <<pc, split, X, craters, beta, i, csvs, preds, lists, out, calls,
            npredict, err>>
trvars == <<tpc, MP, nb, events, terr>>

---------------------------------------------------------------------------
(* Bounds of the model *)
MaxImages == 4      \* images per batch (len(X))
MaxTempl == 5       \* circles extracted from one prediction
MaxCircles == 5     \* usable circles in one crater table
MaxBeta == 2        \* F-beta weights 1..MaxBeta
MaxEpochs == 2      \* MP['epochs']

(* Program constants *)
minrad == 2
maxrad == 50
CutradNum == 4      \* cutrad = 0.8 = CutradNum / CutradDen
CutradDen == 5
Dim == 256          \* MP['dim']

---------------------------------------------------------------------------
(* Exact rational arithmetic standing for the float arithmetic *)
RECURSIVE GCD(_, _)
GCD(a, b) == IF b = 0 THEN a ELSE GCD(b, a % b)

Abs(a) == IF a < 0 THEN -a ELSE a

\* n / d, d # 0, in lowest terms with a positive denominator
Rat(n, d) ==
    LET g == GCD(Abs(n), Abs(d))
        s == IF d < 0 THEN -1 ELSE 1
    IN  <<(s * n) \div g, (s * d) \div g>>

RAdd(a, b) == Rat(a[1] * b[2] + b[1] * a[2], a[2] * b[2])
RSub(a, b) == Rat(a[1] * b[2] - b[1] * a[2], a[2] * b[2])
RMul(a, b) == Rat(a[1] * b[1], a[2] * b[2])
RDiv(a, b) == Rat(a[1] * b[2], a[2] * b[1])
RInt(n) == <<n, 1>>
RLess(a, b) == a[1] * b[2] < b[1] * a[2]

RECURSIVE RSum(_)
RSum(s) == IF s = <<>> THEN RInt(0) ELSE RAdd(Head(s), RSum(Tail(s)))

np_mean(s) == RDiv(RSum(s), RInt(Len(s)))

\* np.std(s)^2: the mean of the squared deviations from the mean
np_var(s) ==
    LET m == np_mean(s)
    IN  np_mean([k \in 1..Len(s) |-> RMul(RSub(s[k], m), RSub(s[k], m))])

RECURSIVE np_max(_)
np_max(s) ==
    IF Len(s) = 1 THEN Head(s)
    ELSE LET m == np_max(Tail(s)) IN IF RLess(Head(s), m) THEN m ELSE Head(s)

ToRat(s) == [k \in 1..Len(s) |-> RInt(s[k])]

---------------------------------------------------------------------------
(* The ground-truth filter, lines 121-130.  A row is [x, y, d] with d the  *)
(* 'Diameter (pix)' column.                                                *)

\* csv[diam] < 2 * maxrad  &  csv[diam] > 2 * minrad
InBand(row) == row.d < 2 * maxrad /\ row.d > 2 * minrad

\* c + cutrad * diam / 2 <= dim, over the common denominator 2 * CutradDen
BelowHigh(c, d, dim) ==
    2 * CutradDen * c + CutradNum * d <= 2 * CutradDen * dim

\* the lower border test with >= for >
AboveLowNonStrict(c, d) == 2 * CutradDen * c - CutradNum * d >= 0

\* c - cutrad * diam / 2 > 0
AboveLow(c, d) == 2 * CutradDen * c - CutradNum * d > 0

Keep(row, dim) ==
    /\ InBand(row)
    /\ BelowHigh(row.x, row.d, dim)
    /\ BelowHigh(row.y, row.d, dim)
    /\ AboveLow(row.x, row.d)
    /\ AboveLow(row.y, row.d)

FilterCsv(csv, dim) == SelectSeq(csv, LAMBDA row : Keep(row, dim))

\* if len(csv) < 3
TooFew(csv) == Len(csv) < 3

\* a sentinel as long as the shortest accepted table
SentinelLong == <<-1, -1, -1>>

Sentinel == <<-1>>

\* np.asarray((csv['x'], csv['y'], csv[diam] / 2)).T
CsvCoords(csv) ==
    [k \in 1..Len(csv) |-> <<csv[k].x, csv[k].y, Rat(csv[k].d, 2)>>]

CsvEntry(table, dim) ==
    LET csv == FilterCsv(table, dim)
    IN  IF TooFew(csv) THEN Sentinel ELSE CsvCoords(csv)

---------------------------------------------------------------------------
(* template_match_t2c.  A prediction is described by what the template     *)
(* matching extracts from it: N_templ candidate circles, n_true of which   *)
(* lie on a real crater, the largest radius, the mean fractional errors    *)
(* and the duplicates.  Unique matches cannot exceed either count.         *)
Min(a, b) == IF a < b THEN a ELSE b

template_match_t2c(pred, csv_coords) ==
    [N_match |-> Min(pred.n_true, Len(csv_coords)),
     N_csv |-> Len(csv_coords),
     N_templ |-> pred.N_templ,
     maxr |-> pred.maxr,
     elo |-> pred.elo,
     ela |-> pred.ela,
     er |-> pred.er,
     csv_duplicates |-> pred.dupes]

---------------------------------------------------------------------------
(* One iteration of the metric loop, lines 139-164 *)

\* the skip test with only the empty list skipped
InsufficientEmptyOnly(csv) == Len(csv) < 1

\* if len(csvs[i]) < 3: continue
Insufficient(csv) == Len(csv) < 3

\* the inclusion test with >= for >
IncludedNonNegative(N_match) == N_match >= 0

\* if N_match > 0
Included(N_match) == N_match > 0

\* the divisors of lines 146-150, in evaluation order; the F-beta divisor
\* p * beta**2 + r is only evaluated when p and r were
Divisors(res, b) ==
    LET d1 == res.N_match + (res.N_templ - res.N_match)
        d2 == res.N_csv
    IN  IF d1 = 0 \/ d2 = 0 THEN <<d1, d2>>
        ELSE LET p == Rat(res.N_match, d1)
                 r == Rat(res.N_match, d2)
             IN  <<d1, d2, RAdd(RMul(p, RInt(b * b)), r)[1], res.N_templ,
                   res.N_csv>>

DivisionByZero(res, b) ==
    \E k \in 1..Len(Divisors(res, b)) : Divisors(res, b)[k] = 0

\* the metrics with beta for beta**2 in the F-beta score
ImageMetricsBetaLinear(res, b) ==
    LET p == Rat(res.N_match, res.N_match + (res.N_templ - res.N_match))
        r == Rat(res.N_match, res.N_csv)
    IN  [p |-> p,
         r |-> r,
         f |-> RDiv(RMul(RInt(1 + b), RMul(r, p)), RAdd(RMul(p, RInt(b)), r)),
         fn |-> Rat(res.N_templ - res.N_match, res.N_templ),
         fn2 |-> Rat(res.N_templ - res.N_match, res.N_csv)]

\* p, r, f, fn, fn2 of lines 146-150
ImageMetrics(res, b) ==
    LET p == Rat(res.N_match, res.N_match + (res.N_templ - res.N_match))
        r == Rat(res.N_match, res.N_csv)
    IN  [p |-> p,
         r |-> r,
         f |-> RDiv(RMul(RInt(1 + b * b), RMul(r, p)),
                    RAdd(RMul(p, RInt(b * b)), r)),
         fn |-> Rat(res.N_templ - res.N_match, res.N_templ),
         fn2 |-> Rat(res.N_templ - res.N_match, res.N_csv)]

EmptyLists ==
    [recall |-> <<>>, precision |-> <<>>, fscore |-> <<>>,
     frac_new |-> <<>>, frac_new2 |-> <<>>, maxrad |-> <<>>,
     err_lo |-> <<>>, err_la |-> <<>>, err_r |-> <<>>]

\* the appends with maxrad kept as a running maximum
AppendAllRunningMax(l, m, res) ==
    [recall |-> Append(l.recall, m.r),
     precision |-> Append(l.precision, m.p),
     fscore |-> Append(l.fscore, m.f),
     frac_new |-> Append(l.frac_new, m.fn),
     frac_new2 |-> Append(l.frac_new2, m.fn2),
     maxrad |-> Append(l.maxrad,
                       IF l.maxrad # <<>> /\ l.maxrad[Len(l.maxrad)] > res.maxr
                       THEN l.maxrad[Len(l.maxrad)] ELSE res.maxr),
     err_lo |-> Append(l.err_lo, res.elo),
     err_la |-> Append(l.err_la, res.ela),
     err_r |-> Append(l.err_r, res.er)]

\* the nine appends of lines 151-159
AppendAll(l, m, res) ==
    [recall |-> Append(l.recall, m.r),
     precision |-> Append(l.precision, m.p),
     fscore |-> Append(l.fscore, m.f),
     frac_new |-> Append(l.frac_new, m.fn),
     frac_new2 |-> Append(l.frac_new2, m.fn2),
     maxrad |-> Append(l.maxrad, res.maxr),
     err_lo |-> Append(l.err_lo, res.elo),
     err_la |-> Append(l.err_la, res.ela),
     err_r |-> Append(l.err_r, res.er)]

\* print "duplicate(s) (shown above) found in image %d" % i
DuplicateNotice(k) == [kind |-> "duplicate", i |-> k]

\* the skip notice with N_csv and N_templ exchanged
SkipNoticeSwapped(k, res) ==
    [kind |-> "skipping", i |-> k, N_csv |-> res.N_templ,
     N_templ |-> res.N_csv, N_match |-> res.N_match]

\* print("skipping iteration %d,N_csv=%d,N_templ=%d,N_match=%d" % ...)
SkipNotice(k, res) ==
    [kind |-> "skipping", i |-> k, N_csv |-> res.N_csv,
     N_templ |-> res.N_templ, N_match |-> res.N_match]

\* what one iteration does to the lists, the output and the matcher calls
MatchImage(st, k, csv, pred, b) ==
    IF Insufficient(csv) THEN st
    ELSE LET res == template_match_t2c(pred, csv)
             called == [st EXCEPT !.calls = Append(@, k)]
         IN  IF Included(res.N_match)
             THEN IF DivisionByZero(res, b)
                  THEN [called EXCEPT !.err = "ZeroDivisionError"]
                  ELSE [called EXCEPT
                          !.lists = AppendAll(@, ImageMetrics(res, b), res),
                          !.out = IF Len(res.csv_duplicates) > 0
                                  THEN Append(@, DuplicateNotice(k))
                                  ELSE @]
             ELSE [called EXCEPT !.out = Append(@, SkipNotice(k, res))]

\* the second loop as a whole: the iterations from image k on
RECURSIVE LoopFrom(_, _, _, _, _)
LoopFrom(st, k, cs, ps, b) ==
    IF k >= Len(cs) \/ st.err # "none" THEN st
    ELSE LoopFrom(MatchImage(st, k, cs[k + 1], ps[k + 1], b), k + 1, cs, ps, b)

---------------------------------------------------------------------------
(* The end of get_metrics, lines 166-186.  Each print statement is a       *)
(* record; strdiv tells that its format string is built with the operator  *)
(* / between two string literals, which raises TypeError before any of the *)
(* statement's arguments is evaluated.                                     *)
SummaryThreshold == 3

\* if len(recall) > 3
HasSummary(l) == Len(l.recall) > SummaryThreshold

MeanStd(name, s, div) ==
    [kind |-> name, strdiv |-> div, mean |-> np_mean(s), var |-> np_var(s)]

SummaryLines(l) ==
    <<MeanStd("recall", l.recall, FALSE),
      MeanStd("precision", l.precision, TRUE),
      MeanStd("fscore", l.fscore, FALSE),
      MeanStd("frac_new", l.frac_new, TRUE),
      MeanStd("frac_new2", l.frac_new2, TRUE),
      [kind |-> "errors", strdiv |-> TRUE, lo |-> np_mean(ToRat(l.err_lo)),
       la |-> np_mean(ToRat(l.err_la)), r |-> np_mean(ToRat(l.err_r))],
      MeanStd("maxrad", ToRat(l.maxrad), TRUE),
      [kind |-> "absmax", strdiv |-> TRUE, max |-> np_max(ToRat(l.maxrad))],
      [kind |-> "blank", strdiv |-> FALSE]>>

\* the statements of a block that run before the first one that raises
RECURSIVE PrintedPrefix(_)
PrintedPrefix(lines) ==
    IF lines = <<>> \/ Head(lines).strdiv THEN <<>>
    ELSE <<Head(lines)>> \o PrintedPrefix(Tail(lines))

Raises(lines) == \E k \in 1..Len(lines) : lines[k].strdiv

\* print("binary XE score = %f" % model.evaluate(X, Y))
XELine == [kind |-> "xe", strdiv |-> FALSE]

EndLines(l) == <<XELine>> \o (IF HasSummary(l) THEN SummaryLines(l) ELSE <<>>)

---------------------------------------------------------------------------
(* Inputs *)
Row(x, y, d) == [x |-> x, y |-> y, d |-> d]

\* a crater well inside the image
GoodRow(k) == Row(100 + k, 90, 20)

\* batches of several images: a table with two usable craters (one more is
\* cut by the border, one is too small) and one with three (and one too large)
TableFew == <<Row(100, 90, 20), Row(3, 90, 20), Row(60, 60, 10), Row(30, 30, 4)>>
TableOK == <<GoodRow(1), Row(128, 128, 100), GoodRow(2), GoodRow(3)>>
\* one usable crater; five usable craters
TableOne == <<Row(255, 255, 20), GoodRow(1)>>
TableFive == <<GoodRow(1), GoodRow(2), GoodRow(3), GoodRow(4), GoodRow(5)>>

Pred(t, n, m, e, du) ==
    [N_templ |-> t, n_true |-> n, maxr |-> m, elo |-> e, ela |-> e + 1,
     er |-> e + 2, dupes |-> du]

Image(t, p) == [truth |-> t, mask |-> p]

\* too few craters (two, one); no match; all three matched; two of four
\* matched, with a duplicate; four of five matched, one spurious detection
ImageCatalog ==
    <<Image(TableFew, Pred(3, 3, 10, 1, <<>>)),
      Image(TableOne, Pred(2, 1, 8, 2, <<>>)),
      Image(TableOK, Pred(2, 0, 6, 0, <<>>)),
      Image(TableOK, Pred(3, 3, 10, 1, <<>>)),
      Image(TableOK, Pred(4, 2, 12, 4, <<1>>)),
      Image(TableFive, Pred(5, 4, 11, 3, <<>>))>>
BatchImages == {ImageCatalog[k] : k \in 1..Len(ImageCatalog)}

\* single images: tables with k usable craters and one that is not, and
\* tables whose first crater ranges over the borders and the radius band
SizeTable(k) == <<Row(0, 0, 20)>> \o [j \in 1..k |-> GoodRow(j)]
GridX == {2, 3, 8, 9, 40, 128, 216, 217, 248, 249, 254, 255}
GridY == {3, 128, 254, 255}
GridD == {4, 5, 20, 99, 100}
GridTables ==
    {<<Row(x, y, d), GoodRow(1), GoodRow(2)>> : x \in GridX, y \in GridY, d \in GridD}
SingleTables == {SizeTable(k) : k \in 0..MaxCircles} \cup GridTables

SinglePreds ==
    {p \in {Pred(t, n, 9, 1, <<>>) : t \in 0..MaxTempl, n \in 0..MaxTempl} :
        p.n_true <= p.N_templ}

SingleImages == {Image(t, p) : t \in SingleTables, p \in SinglePreds}

Batches(images, lo, hi) == UNION {[1..n -> images] : n \in lo..hi}

\* model.predict(X)
model_predict(x) == [k \in 1..Len(x) |-> x[k].mask]

---------------------------------------------------------------------------
(* get_metrics *)
Init ==
    /\ pc = "idle" /\ split = "none" /\ X = <<>> /\ craters = <<>> /\ beta = 1 /\ i = 0
    /\ csvs = <<>> /\ preds = <<>> /\ lists = EmptyLists /\ out = <<>>
    /\ calls = <<>> /\ npredict = 0 /\ err = "none"
    /\ tpc = "idle" /\ MP = [epochs |-> 0, save_models |-> 0] /\ nb = 0
    /\ events = <<>> /\ terr = "none"

\* entering get_metrics(data, craters, dim, model, beta), lines 112-117
Enter(x, b, s) ==
    /\ pc' = "filter" /\ split' = s /\ X' = x
    /\ craters' = [k \in 1..Len(x) |-> x[k].truth] /\ beta' = b /\ i' = 0
    /\ csvs' = <<>> /\ preds' = <<>> /\ lists' = EmptyLists /\ out' = <<>>
    /\ calls' = <<>> /\ npredict' = 0 /\ err' = "none"

\* get_metrics called on a batch, with the default beta
CallGetMetrics ==
    /\ pc = "idle" /\ tpc = "idle"
    /\ \E x \in Batches(BatchImages, 1, MaxImages) : Enter(x, 1, "direct")
    /\ UNCHANGED trvars

\* get_metrics called on one image
CallGetMetricsSingle ==
    /\ pc = "idle" /\ tpc = "idle"
    /\ \E x \in SingleImages, b \in 1..MaxBeta : Enter(<<x>>, b, "direct")
    /\ UNCHANGED trvars

\* one iteration of the first loop, lines 118-130
FilterStep ==
    /\ pc = "filter" /\ i < Len(craters)
    /\ csvs' = Append(csvs, CsvEntry(craters[i + 1], Dim))
    /\ i' = i + 1
    /\ UNCHANGED <<pc, split, X, craters, beta, preds, lists, out, calls,
                   npredict, err>>
    /\ UNCHANGED trvars

\* lines 133-138: the lists are created and the model predicts
Predict ==
    /\ pc = "filter" /\ i = Len(craters)
    /\ preds' = model_predict(X)
    /\ npredict' = npredict + 1
    /\ lists' = EmptyLists
    /\ i' = 0
    /\ pc' = "match"
    /\ UNCHANGED <<split, X, craters, beta, csvs, out, calls, err>>
    /\ UNCHANGED trvars

\* one iteration of the second loop, lines 139-164
MatchStep ==
    /\ pc = "match" /\ i < Len(craters)
    /\ LET st == MatchImage([lists |-> lists, out |-> out, calls |-> calls,
                             err |-> "none"],
                            i, csvs[i + 1], preds[i + 1], beta)
       IN  /\ lists' = st.lists /\ out' = st.out /\ calls' = st.calls
           /\ err' = st.err
           /\ pc' = IF st.err = "none" THEN "match" ELSE "raised"
           /\ tpc' = IF st.err # "none" /\ split \in {"dev", "test"}
                     THEN "raised" ELSE tpc
           /\ terr' = IF st.err # "none" /\ split \in {"dev", "test"}
                      THEN st.err ELSE terr
           /\ i' = IF st.err = "none" THEN i + 1 ELSE i
    /\ UNCHANGED <<split, X, craters, beta, csvs, preds, npredict>>
    /\ UNCHANGED <<MP, nb, events>>

\* lines 166-186, and the return to the caller
Evaluate ==
    /\ pc = "match" /\ i = Len(craters)
    /\ LET lines == EndLines(lists)
           raised == Raises(lines)
           called == split \in {"dev", "test"}
       IN  /\ out' = out \o PrintedPrefix(lines)
           /\ err' = IF raised THEN "TypeError" ELSE "none"
           /\ pc' = IF raised THEN "raised" ELSE "done"
           /\ tpc' = IF ~called THEN tpc
                     ELSE IF raised THEN "raised"
                     ELSE IF split = "dev" THEN "loop" ELSE "done"
           /\ terr' = IF called /\ raised THEN "TypeError" ELSE terr
           /\ nb' = IF called /\ ~raised /\ split = "dev" THEN nb + 1 ELSE nb
    /\ UNCHANGED <<split, X, craters, beta, i, csvs, preds, lists, calls,
                   npredict>>
    /\ UNCHANGED <<MP, events>>

---------------------------------------------------------------------------
(* train_and_test_model *)

\* def custom_image_generator(data, target, bs=32)
GeneratorParams == <<"data", "target", "bs">>

\* Python binds the arguments when the generator function is called: a
\* keyword must name a parameter that no positional argument has taken
CallBinds(params, npos, keywords) ==
    \A k \in keywords : \E j \in (npos + 1)..Len(params) : params[j] = k

\* custom_image_generator(Data[..][0], Data[..][1], batch_size=bs), line 310
GeneratorCallBinds == CallBinds(GeneratorParams, 2, {"batch_size"})

\* lines 322-327: two banners, then the parameters, whose format string is
\* built with / between string literals
InfoLines ==
    <<[kind |-> "banner", strdiv |-> FALSE],
      [kind |-> "end_of_run_info", strdiv |-> FALSE],
      [kind |-> "params", strdiv |-> TRUE]>>

\* lines 295-308
CallTrain ==
    /\ pc = "idle" /\ tpc = "idle"
    /\ \E e \in 0..MaxEpochs, s \in {0, 1} :
           MP' = [epochs |-> e, save_models |-> s]
    /\ tpc' = "loop" /\ nb' = 0 /\ events' = <<>> /\ terr' = "none"
    /\ UNCHANGED gmvars

\* one pass of "for nb in range(nb_epoch)", lines 309-317: the generators
\* are built, fit_generator trains, get_metrics is called on the dev split
EpochStep ==
    /\ tpc = "loop"
    /\ IF nb >= MP.epochs
       THEN /\ tpc' = "save"
            /\ UNCHANGED <<MP, nb, events, terr>>
            /\ UNCHANGED gmvars
       ELSE IF ~GeneratorCallBinds
       THEN /\ tpc' = "raised" /\ terr' = "TypeError"
            /\ UNCHANGED <<MP, nb, events>>
            /\ UNCHANGED gmvars
       ELSE /\ events' = events \o <<"fit", "get_metrics_dev">>
            /\ tpc' = "in_dev"
            /\ \E x \in Batches(BatchImages, 1, MaxImages) : Enter(x, 1, "dev")
            /\ UNCHANGED <<MP, nb, terr>>

\* lines 319-320
SaveStep ==
    /\ tpc = "save"
    /\ events' = IF MP.save_models = 1 THEN Append(events, "save") ELSE events
    /\ tpc' = "info"
    /\ UNCHANGED <<MP, nb, terr>>
    /\ UNCHANGED gmvars

\* lines 322-328: the end-of-run prints, then get_metrics on the test split
EndOfRun ==
    /\ tpc = "info"
    /\ IF Raises(InfoLines)
       THEN /\ tpc' = "raised" /\ terr' = "TypeError"
            /\ UNCHANGED <<MP, nb, events>>
            /\ UNCHANGED gmvars
       ELSE /\ events' = Append(events, "get_metrics_test")
            /\ tpc' = "in_test"
            /\ \E x \in Batches(BatchImages, 1, MaxImages) : Enter(x, 1, "test")
            /\ UNCHANGED <<MP, nb, terr>>

---------------------------------------------------------------------------
Next ==
    \/ CallGetMetrics
    \/ FilterStep
    \/ Predict
    \/ MatchStep
    \/ Evaluate
    \/ CallTrain
    \/ EpochStep
    \/ SaveStep
    \/ EndOfRun

Spec == Init /\ [][Next]_vars

\* get_metrics on a single image, over all counts within the bounds
NextSingle ==
    \/ CallGetMetricsSingle
    \/ FilterStep
    \/ Predict
    \/ MatchStep
    \/ Evaluate

SpecSingle == Init /\ [][NextSingle]_vars

---------------------------------------------------------------------------
(* Properties *)

ListNames == {"recall", "precision", "fscore", "frac_new", "frac_new2",
              "maxrad", "err_lo", "err_la", "err_r"}

\* the loop index has passed image j of the running get_metrics
Processed == IF pc \in {"match", "done", "raised"} THEN 0..(i - 1) ELSE {}

NUsable(j) == Len(FilterCsv(craters[j + 1], Dim))
NMatch(j) == Min(preds[j + 1].n_true, NUsable(j))
Qualifies(j) == NUsable(j) >= 3 /\ NMatch(j) > 0

\* C1: an image has an entry in the aggregate lists iff at least 3 of its
\* circles pass the filter and N_match > 0; the matcher is called exactly on
\* the images with at least 3 usable circles; the nine lists always have the
\* same length, the number of qualifying images processed so far.
C1_ListsHoldQualifying ==
    \A sufficient \in {{j \in Processed : NUsable(j) >= 3}} :
    \A qualifying \in {{j \in sufficient : NMatch(j) > 0}} :
        /\ \A nm \in ListNames : Len(lists[nm]) = Cardinality(qualifying)
        /\ {calls[k] : k \in 1..Len(calls)} = sufficient
        /\ Len(calls) = Cardinality(sufficient)
        /\ \A k \in 1..Len(lists.maxrad) :
               \E j \in qualifying : lists.maxrad[k] = preds[j + 1].maxr

C1_Witness ==
    /\ pc = "done" /\ Len(craters) = 4
    /\ Len(calls) = 3 /\ Len(lists.recall) = 2

\* C2: a step that processes an image with sufficient ground truth and
\* N_match = 0 prints exactly one skip notice carrying the image index, N_csv,
\* N_templ and N_match, none was printed for it before, the lists stay as
\* they are, and the loop goes on to the next image without an exception.
C2_ZeroMatchReported ==
    [][(/\ pc = "match" /\ i < Len(craters)
        /\ NUsable(i) >= 3 /\ NMatch(i) = 0)
       => (/\ \A k \in 1..Len(out) : out[k].i < i
           /\ out' = Append(out, [kind |-> "skipping", i |-> i,
                                  N_csv |-> NUsable(i),
                                  N_templ |-> preds[i + 1].N_templ,
                                  N_match |-> 0])
           /\ lists' = lists
           /\ i' = i + 1 /\ pc' = "match" /\ err' = "none")]_vars

C2_Witness ==
    /\ pc = "done" /\ Len(craters) = 3
    /\ NUsable(0) >= 3 /\ NMatch(0) = 0
    /\ Len(out) >= 2 /\ out[1].kind = "skipping" /\ out[1].i = 0
    /\ Len(lists.recall) = 2

Mentions(j) == {k \in 1..Len(out) : out[k].kind \in {"skipping", "duplicate"}
                                    /\ out[k].i = j}

\* C3 as stated: an image with fewer than 3 usable circles adds nothing to
\* the lists and a skip notice is printed for it.
C3_Claim ==
    \A sufficient \in {{j \in Processed : NUsable(j) >= 3}} :
        /\ \A nm \in ListNames : Len(lists[nm]) <= Cardinality(sufficient)
        /\ \A j \in Processed \ sufficient :
               \E k \in Mentions(j) : out[k].kind = "skipping"

\* C3, amended: an image with fewer than 3 usable circles (0, 1 or 2) is
\* excluded silently: it is never passed to the matcher, nothing is appended
\* to any list for it and nothing is printed about it.
C3_InsufficientSilentlyExcluded ==
    \A sufficient \in {{j \in Processed : NUsable(j) >= 3}} :
        /\ \A nm \in ListNames : Len(lists[nm]) <= Cardinality(sufficient)
        /\ \A j \in Processed \ sufficient :
               /\ csvs[j + 1] = <<-1>>
               /\ \A k \in 1..Len(calls) : calls[k] # j
               /\ Mentions(j) = {}

\* image A with N_match, N_csv, N_templ = 4, 5, 5 and image B with one
\* usable circle: the lists hold A alone, nothing is printed about B; and an
\* image with two usable circles goes the same way
C3_Witness ==
    /\ pc = "done" /\ Len(craters) = 3
    /\ NUsable(0) = 5 /\ NUsable(1) = 1 /\ NUsable(2) = 2
    /\ lists.recall = <<(<<4, 5>>)>> /\ lists.precision = <<(<<4, 5>>)>>
    /\ out = <<XELine>> /\ calls = <<0>>

\* cross-multiplied equality of the rational q with n / d
Is(q, n, d) == q[2] > 0 /\ d > 0 /\ q[1] * d = n * q[2]

\* C4: the entries recorded for an included image are precision =
\* N_match / N_templ, recall = N_match / N_csv, fscore = (1 + beta^2) * N_match
\* / (beta^2 * N_csv + N_templ), which is (1 + beta^2) r p / (p beta^2 + r),
\* frac_new = (N_templ - N_match) / N_templ and frac_new2 = (N_templ -
\* N_match) / N_csv; 4, 5, 5 with beta 1 gives 4/5 three times, and equal
\* counts give 1, 1, 1, 0, 0.
C4_MetricsFormulas ==
    (0 \in Processed /\ Qualifies(0)) =>
        LET M == NMatch(0)
            C == NUsable(0)
            T == preds[1].N_templ
            B == beta * beta
        IN  /\ Len(lists.recall) = 1
            /\ Is(lists.precision[1], M, T)
            /\ Is(lists.recall[1], M, C)
            /\ Is(lists.fscore[1], (1 + B) * M, B * C + T)
            /\ Is(lists.frac_new[1], T - M, T)
            /\ Is(lists.frac_new2[1], T - M, C)
            /\ (M = 4 /\ C = 5 /\ T = 5 /\ beta = 1) =>
                   /\ lists.precision[1] = <<4, 5>>
                   /\ lists.recall[1] = <<4, 5>>
                   /\ lists.fscore[1] = <<4, 5>>
            /\ (M = C /\ C = T) =>
                   /\ lists.precision[1] = <<1, 1>>
                   /\ lists.recall[1] = <<1, 1>>
                   /\ lists.fscore[1] = <<1, 1>>
                   /\ lists.frac_new[1] = <<0, 1>>
                   /\ lists.frac_new2[1] = <<0, 1>>

C4_Witness ==
    /\ pc = "done" /\ beta = 1
    /\ NMatch(0) = 4 /\ NUsable(0) = 5 /\ preds[1].N_templ = 5
    /\ lists.fscore = <<(<<4, 5>>)>>

\* C5: no division of get_metrics has a zero divisor: ZeroDivisionError is
\* never raised, and whenever the next image is one whose metrics will be
\* computed, N_templ, N_csv and p * beta^2 + r are all non-zero.
C5_NoZeroDivisor ==
    /\ err # "ZeroDivisionError"
    /\ (pc = "match" /\ i < Len(craters) /\ Qualifies(i)) =>
           LET M == NMatch(i)
               C == NUsable(i)
               T == preds[i + 1].N_templ
           IN  /\ M + (T - M) # 0 /\ C # 0 /\ T # 0
               /\ M * beta * beta * C + M * T # 0

C5_Witness ==
    /\ pc = "done" /\ Len(lists.fscore) = 1
    /\ NMatch(0) = 1 /\ preds[1].N_templ = MaxTempl /\ beta = MaxBeta

SummaryKinds == {"recall", "precision", "fscore", "frac_new", "frac_new2",
                 "errors", "maxrad", "absmax"}
PrintedKinds == {out[k].kind : k \in 1..Len(out)}

\* C6 as stated: when get_metrics has ended, all summary statistics have
\* been printed if more than 3 images qualified, and none otherwise.
C6_Claim ==
    pc \in {"done", "raised"} =>
        IF Len(lists.recall) > 3
        THEN SummaryKinds \subseteq PrintedKinds
        ELSE SummaryKinds \cap PrintedKinds = {}

\* C7 as stated: get_metrics never raises.
C7_Claim == pc # "raised" /\ err = "none"

BagOf(s) == [v \in {s[k] : k \in 1..Len(s)} |->
                Cardinality({k \in 1..Len(s) : s[k] = v})]

\* the orders in which the indices S can be taken
RECURSIVE Orders(_)
Orders(S) ==
    IF S = {} THEN {<<>>}
    ELSE UNION {{<<a>> \o f : f \in Orders(S \ {a})} : a \in S}

IncludedImages(st) ==
    {st.calls[k] : k \in 1..Len(st.calls)} \
    {st.out[k].i : k \in {m \in 1..Len(st.out) : st.out[m].kind = "skipping"}}

Start == [lists |-> EmptyLists, out |-> <<>>, calls |-> <<>>, err |-> "none"]

\* the images of the batch come in the order of the catalog; every batch is
\* a permutation of exactly one such batch
Rank(img) == CHOOSE k \in 1..Len(ImageCatalog) : ImageCatalog[k] = img
InCatalogOrder == \A k \in 1..(Len(X) - 1) : Rank(X[k]) <= Rank(X[k + 1])

\* C8: when get_metrics has ended on a batch, running its loop over the
\* same images in any other order (tables and predictions permuted alike)
\* includes the same images, gives each of the nine lists the same multiset
\* of values, takes the same decision on the summary and, when there is a
\* summary, gives the same means, variances and maximum radius.  Every
\* order of a batch is compared with the one order of it that follows the
\* catalog, so any two orders of the same images agree.
C8_OrderIndependent ==
    (pc \in {"done", "raised"} /\ InCatalogOrder) =>
        \A mine \in {[bags |-> [nm \in ListNames |-> BagOf(lists[nm])],
                       incl |-> IncludedImages([calls |-> calls, out |-> out]),
                       summary |-> IF HasSummary(lists) THEN SummaryLines(lists)
                                   ELSE <<>>]} :
        \A f \in Orders(1..Len(craters)) :
        \A other \in {LoopFrom(Start, 0, [k \in 1..Len(f) |-> csvs[f[k]]],
                                 [k \in 1..Len(f) |-> preds[f[k]]], beta)} :
            /\ other.err = "none"
            /\ \A nm \in ListNames : BagOf(other.lists[nm]) = mine.bags[nm]
            /\ {f[c + 1] - 1 : c \in IncludedImages(other)} = mine.incl
            /\ HasSummary(other.lists) = HasSummary(lists)
            /\ HasSummary(lists) => SummaryLines(other.lists) = mine.summary

C8_Witness ==
    /\ pc = "raised" /\ InCatalogOrder
    /\ Len(craters) = 4 /\ Len(lists.recall) = 4
    /\ lists.recall[1] # lists.recall[2]
    /\ lists.maxrad[1] # lists.maxrad[4]

\* the coordinates of the rows of a table that satisfy keep, or the
\* sentinel when fewer than 3 do
Expected(table, keep(_)) ==
    LET rows == SelectSeq(table, keep)
    IN  IF Len(rows) < 3 THEN <<-1>>
        ELSE [k \in 1..Len(rows) |->
                 <<rows[k].x, rows[k].y,
                   IF rows[k].d % 2 = 0 THEN <<rows[k].d \div 2, 1>>
                   ELSE <<rows[k].d, 2>> >>]

\* radius strictly between minrad = 2 and maxrad = 50
Band(row) == 4 < row.d /\ row.d < 100

\* margin 0.8 * diameter, in tenths of a pixel
ClaimedKeep(row) ==
    /\ Band(row)
    /\ 10 * row.x - 8 * row.d > 0 /\ 10 * row.x + 8 * row.d <= 10 * Dim
    /\ 10 * row.y - 8 * row.d > 0 /\ 10 * row.y + 8 * row.d <= 10 * Dim

\* margin 0.8 * radius, in tenths of a pixel
AmendedKeep(row) ==
    /\ Band(row)
    /\ 10 * row.x - 4 * row.d > 0 /\ 10 * row.x + 4 * row.d <= 10 * Dim
    /\ 10 * row.y - 4 * row.d > 0 /\ 10 * row.y + 4 * row.d <= 10 * Dim

\* C9 as stated: the circles kept for an image are exactly those in the
\* radius band whose centre is at least 0.8 * diameter from every border.
C9_Claim ==
    \A j \in 1..Len(csvs) : csvs[j] = Expected(craters[j], ClaimedKeep)

\* C9, amended: the circles kept for an image, and passed to the matcher
\* when there are at least 3, are exactly those with 2 < radius < 50 and
\* x - 0.8 * radius > 0, x + 0.8 * radius <= dim, and the same for y: the
\* margin is cutrad times the radius, that is 0.4 times the diameter.
C9_FilterKeepsByRadiusMargin ==
    /\ \A j \in 1..Len(csvs) : csvs[j] = Expected(craters[j], AmendedKeep)
    /\ \A k \in 1..Len(calls) :
           Len(SelectSeq(craters[calls[k] + 1], AmendedKeep)) >= 3

C9_Witness ==
    /\ pc = "done" /\ calls = <<0>>
    /\ craters[1][1] = Row(9, 128, 20)
    /\ csvs[1][1] = <<9, 128, <<10, 1>> >>
    /\ ~ClaimedKeep(craters[1][1])

RECURSIVE Epochs(_)
Epochs(n) == IF n = 0 THEN <<>> ELSE <<"fit", "get_metrics_dev">> \o Epochs(n - 1)

\* C10 as stated: a run of train_and_test_model that has ended has trained
\* and evaluated on the dev split once per epoch, in that order, then saved
\* the model iff save_models = 1, then evaluated once on the test split.
C10_Claim ==
    tpc \in {"done", "raised"} =>
        events = Epochs(MP.epochs)
                 \o (IF MP.save_models = 1 THEN <<"save">> ELSE <<>>)
                 \o <<"get_metrics_test">>

====
